---- MODULE Spec2Model ----
(***************************************************************************)
(* A model of orderbook_simulator.orderbook.OrderBook: its construction,   *)
(* the price-time priority matching engine (submit_order, cancel_order),   *)
(* its state and its queries.                                              *)
(*                                                                         *)
(* Prices are counted in units of MIN_PRICE (0.01), so the float keys of   *)
(* the source become integers with exact equality.  A side of the book is  *)
(* a function from the price keys present in the dict to the list of the   *)
(* ids of the orders queued there (the lists of the source hold references *)
(* to the Order objects of the registry, so an id stands for the object).  *)
(***************************************************************************)
EXTENDS Integers, Sequences, FiniteSets, TLC

\* ------------------------------------------------------------ bounds
\* submit_order is called while fewer than MaxOrders orders were accepted.
MaxOrders == 3

\* ------------------------------------------------- program constants
\* 0.01 in the source, in units of MIN_PRICE.
DEFAULT_TICK_SIZE == 1
MAX_ORDER_QUANTITY == 1000000
\* 0.01 in the source; the unit in which the model counts prices.
MIN_PRICE == 1

Sides == {"BUY", "SELL"}
OrderTypes == {"LIMIT", "MARKET", "IOC"}
OrderStatuses == {"OPEN", "FILLED", "PARTIALLY_FILLED", "CANCELLED"}

\* What a caller may pass.  A LIMIT or IOC order is given one of two valid
\* prices or MIN_PRICE - 1; a MARKET order is given 0, the price the source
\* documents for it, which is below MIN_PRICE.  The quantities are two
\* valid ones and the two invalid ends of the range.
LimitPrices == {MIN_PRICE, MIN_PRICE + 1}
PriceInputs(order_type) ==
    IF order_type = "MARKET" THEN {0} ELSE LimitPrices \cup {MIN_PRICE - 1}
Quantities == {1, 2}
QtyInputs == Quantities \cup {0, MAX_ORDER_QUANTITY + 1}
\* The tick sizes a book is constructed with: the default and 0.
TickInputs == {0, DEFAULT_TICK_SIZE}
\* The numbers of levels get_book_depth is asked for: none, one, and as
\* many as a side can hold with LimitPrices.
DepthInputs == {0, 1, 2}
\* The quantities get_vwap is asked for: the valid quantities of an order
\* and one more than two orders of the bounds can offer at one price.
VwapQuantities == {1, 2, 3}
\* Timestamps a caller may supply: nothing orders them, so a later submit
\* may carry an earlier one.
Timestamps == {1, 2}

VARIABLES
    tick_size,      \* tick_size: the argument of the constructor, kept by the book
    orders,         \* _orders: the registry, orders[id] is the Order object
    bids,           \* _bids: price -> list of order ids
    asks,           \* _asks: price -> list of order ids
    trades,         \* _trades: the trade log
    next_order_id,  \* _next_order_id
    next_trade_id,  \* _next_trade_id
    last            \* the last command: its arguments, outcome and the state before it

vars == <<tick_size, orders, bids, asks, trades, next_order_id, next_trade_id, last>>
book == <<tick_size, orders, bids, asks, trades, next_order_id, next_trade_id>>

\* ------------------------------------------------------------ helpers
Min(a, b) == IF a <= b THEN a ELSE b

SetMin(S) == CHOOSE x \in S : \A y \in S : x <= y
SetMax(S) == CHOOSE x \in S : \A y \in S : x >= y

\* sorted(prices)
RECURSIVE SortedAsc(_)
SortedAsc(S) ==
    IF S = {} THEN <<>>
    ELSE LET m == SetMin(S) IN <<m>> \o SortedAsc(S \ {m})

\* sorted(prices, reverse=True)
RECURSIVE SortedDesc(_)
SortedDesc(S) ==
    IF S = {} THEN <<>>
    ELSE LET m == SetMax(S) IN <<m>> \o SortedDesc(S \ {m})

\* list.remove(x): drops the first element equal to x
RECURSIVE ListRemove(_, _)
ListRemove(q, x) ==
    IF q = <<>> THEN <<>>
    ELSE IF Head(q) = x THEN Tail(q)
    ELSE <<Head(q)>> \o ListRemove(Tail(q), x)

EmptySide == [p \in {} |-> <<>>]

\* Order(order_id, side, price, quantity, remaining, order_type, timestamp)
\* with the default status OPEN
Order(id, side, price, quantity, order_type, timestamp) ==
    [order_id |-> id, side |-> side, price |-> price, quantity |-> quantity,
     remaining |-> quantity, order_type |-> order_type,
     timestamp |-> timestamp, status |-> "OPEN"]

Trade(id, buy_id, sell_id, price, quantity, timestamp) ==
    [trade_id |-> id, buy_order_id |-> buy_id, sell_order_id |-> sell_id,
     price |-> price, quantity |-> quantity, timestamp |-> timestamp]

\* ------------------------------------------------------------ queries
\* The queries are functions of a book st, a record of its fields.
\* Optional[float]: None, or a value
None == <<>>
Some(x) == <<x>>

_active_prices(side) == {p \in DOMAIN side : side[p] # <<>>}

\* Mutant: the lowest bid.
best_bid_Lowest(st) ==
    LET active_prices == _active_prices(st.bids)
    IN IF active_prices # {} THEN Some(SetMin(active_prices)) ELSE None

\* max(active_prices) if active_prices else None
best_bid(st) ==
    LET active_prices == _active_prices(st.bids)
    IN IF active_prices # {} THEN Some(SetMax(active_prices)) ELSE None

\* min(active_prices) if active_prices else None
best_ask(st) ==
    LET active_prices == _active_prices(st.asks)
    IN IF active_prices # {} THEN Some(SetMin(active_prices)) ELSE None

\* the number of orders of the registry that are OPEN or PARTIALLY_FILLED
order_count(st) ==
    Cardinality({id \in DOMAIN st.orders :
                    st.orders[id].status \in {"OPEN", "PARTIALLY_FILLED"}})

\* len(self._trades)
trade_count(st) == Len(st.trades)

\* list(self._trades): a new list of the (frozen) trades
trades_copy(st) == st.trades

\* a / b on floats, kept as the exact quotient
Ratio(a, b) == [num |-> a, den |-> b]

\* (bid + ask) / 2.0, or None
get_midprice(st) ==
    LET bid == best_bid(st)
        ask == best_ask(st)
    IN IF bid # None /\ ask # None THEN Some(Ratio(bid[1] + ask[1], 2)) ELSE None

\* ask - bid, or None
get_spread(st) ==
    LET bid == best_bid(st)
        ask == best_ask(st)
    IN IF bid # None /\ ask # None THEN Some(ask[1] - bid[1]) ELSE None

BookLevel(price, quantity, count) ==
    [price |-> price, quantity |-> quantity, order_count |-> count]

\* sum(o.remaining for o in active)
RECURSIVE SumRemaining(_, _)
SumRemaining(ords, active) ==
    IF active = <<>> THEN 0
    ELSE ords[Head(active)].remaining + SumRemaining(ords, Tail(active))

\* [o for o in orders if o.remaining > 0]
ActiveAt(ords, queue) == SelectSeq(queue, LAMBDA id : ords[id].remaining > 0)

\* _aggregate_side: one BookLevel for each price with an active order,
\* sorted by price, descending when reverse
_aggregate_side(ords, side, reverse) ==
    LET prices == {p \in DOMAIN side : ActiveAt(ords, side[p]) # <<>>}
        sorted == IF reverse THEN SortedDesc(prices) ELSE SortedAsc(prices)
    IN [i \in DOMAIN sorted |->
            BookLevel(sorted[i],
                      SumRemaining(ords, ActiveAt(ords, side[sorted[i]])),
                      Len(ActiveAt(ords, side[sorted[i]])))]

\* s[:n] of Python: the first n elements, or all but the last -n when n < 0
Slice(s, n) ==
    LET k == IF n >= 0 THEN Min(n, Len(s))
             ELSE IF Len(s) + n > 0 THEN Len(s) + n ELSE 0
    IN SubSeq(s, 1, k)

\* Mutant: the asks are listed from the highest price down.
get_book_depth_AsksDescending(st, levels) ==
    <<Slice(_aggregate_side(st.orders, st.bids, TRUE), levels),
      Slice(_aggregate_side(st.orders, st.asks, TRUE), levels)>>

\* the first "levels" levels of the bids, highest first, and of the asks,
\* lowest first
get_book_depth(st, levels) ==
    <<Slice(_aggregate_side(st.orders, st.bids, TRUE), levels),
      Slice(_aggregate_side(st.orders, st.asks, FALSE), levels)>>

\* Mutant: the opposing levels are listed from the worst price.
_get_opposing_levels_Reversed(st, side) ==
    IF side = "BUY" THEN _aggregate_side(st.orders, st.asks, TRUE)
    ELSE _aggregate_side(st.orders, st.bids, FALSE)

\* the asks from the lowest price for a BUY, the bids from the highest for a SELL
_get_opposing_levels(st, side) ==
    IF side = "BUY" THEN _aggregate_side(st.orders, st.asks, FALSE)
    ELSE _aggregate_side(st.orders, st.bids, TRUE)

\* the loop "for level in levels" of _compute_vwap from position i on
RECURSIVE VwapLoop(_, _, _, _)
VwapLoop(levels, i, remaining, total_cost) ==
    IF i > Len(levels) THEN [remaining |-> remaining, total_cost |-> total_cost]
    ELSE LET fill_qty == Min(remaining, levels[i].quantity)
             cost1 == total_cost + fill_qty * levels[i].price
             rem1 == remaining - fill_qty
         IN IF rem1 <= 0 THEN [remaining |-> rem1, total_cost |-> cost1]
            ELSE VwapLoop(levels, i + 1, rem1, cost1)

\* total_cost / quantity, or None when the levels do not hold the quantity
\* (the division raises ZeroDivisionError for a quantity of 0, which is not
\* among VwapQuantities)
_compute_vwap(levels, quantity) ==
    LET r == VwapLoop(levels, 1, quantity, 0)
    IN IF r.remaining > 0 THEN None ELSE Some(Ratio(r.total_cost, quantity))

get_vwap(st, side, quantity) ==
    _compute_vwap(_get_opposing_levels(st, side), quantity)

\* ---------------------------------------------------------- validation
\* An operation's outcome: "ok", or the exception raised, with the field
\* and the value its message names.
Ok == [kind |-> "ok", field |-> "", got |-> 0]
Raise(kind, field, got) == [kind |-> kind, field |-> field, got |-> got]

\* Mutant: no upper limit on the quantity.
_validate_order_params_NoUpper(side, price, quantity, order_type) ==
    IF quantity <= 0
    THEN Raise("ValidationError", "Quantity", quantity)
    ELSE IF order_type # "MARKET" /\ price < MIN_PRICE
    THEN Raise("ValidationError", "Price", price)
    ELSE Ok

_validate_order_params(side, price, quantity, order_type) ==
    IF quantity <= 0 \/ quantity > MAX_ORDER_QUANTITY
    THEN Raise("ValidationError", "Quantity", quantity)
    ELSE IF order_type # "MARKET" /\ price < MIN_PRICE
    THEN Raise("ValidationError", "Price", price)
    ELSE Ok

\* ------------------------------------------------------------ matching
\* The matcher runs on a record m of what it reads and writes:
\*   m.orders, m.trades, m.next_trade_id   the book's fields
\*   m.side                                the opposing side it walks
\*   m.to_remove                           orders_to_remove of _fill_at_price
\*   m.fills                               one entry per trade: the trade and
\*                                         the registry and opposing side as
\*                                         they were immediately before it
\* Mutant: the two tests in the other order, so that remaining 0 counts as
\* "less than the quantity".
_update_order_status_Swapped(o) ==
    IF o.remaining < o.quantity THEN [o EXCEPT !.status = "PARTIALLY_FILLED"]
    ELSE IF o.remaining = 0 THEN [o EXCEPT !.status = "FILLED"]
    ELSE o

_update_order_status(o) ==
    IF o.remaining = 0 THEN [o EXCEPT !.status = "FILLED"]
    ELSE IF o.remaining < o.quantity THEN [o EXCEPT !.status = "PARTIALLY_FILLED"]
    ELSE o

\* Mutant: the resting order's remaining is not decremented.
_execute_trade_AggressorOnly(m, aggressor, resting, price, quantity) ==
    LET dec == [m.orders EXCEPT ![aggressor].remaining = @ - quantity]
        upd == [dec EXCEPT ![aggressor] = _update_order_status(@),
                           ![resting] = _update_order_status(@)]
        buy_id == IF m.orders[aggressor].side = "BUY" THEN aggressor ELSE resting
        sell_id == IF m.orders[aggressor].side = "BUY" THEN resting ELSE aggressor
        trade == Trade(m.next_trade_id, buy_id, sell_id, price, quantity,
                       m.orders[aggressor].timestamp)
    IN [m EXCEPT !.orders = upd,
                 !.next_trade_id = @ + 1,
                 !.trades = Append(@, trade),
                 !.fills = Append(@, [trade |-> trade, aggressor |-> aggressor,
                                      resting |-> resting, orders |-> m.orders,
                                      side |-> m.side])]

\* Mutant: the trade counter is not moved on.
_execute_trade_SameId(m, aggressor, resting, price, quantity) ==
    LET dec == [m.orders EXCEPT ![aggressor].remaining = @ - quantity,
                                ![resting].remaining = @ - quantity]
        upd == [dec EXCEPT ![aggressor] = _update_order_status(@),
                           ![resting] = _update_order_status(@)]
        buy_id == IF m.orders[aggressor].side = "BUY" THEN aggressor ELSE resting
        sell_id == IF m.orders[aggressor].side = "BUY" THEN resting ELSE aggressor
        trade == Trade(m.next_trade_id, buy_id, sell_id, price, quantity,
                       m.orders[aggressor].timestamp)
    IN [m EXCEPT !.orders = upd,
                 !.trades = Append(@, trade),
                 !.fills = Append(@, [trade |-> trade, aggressor |-> aggressor,
                                      resting |-> resting, orders |-> m.orders,
                                      side |-> m.side])]

\* Mutant: the aggressor is recorded as the buyer, whatever its side.
_execute_trade_AggressorBuys(m, aggressor, resting, price, quantity) ==
    LET dec == [m.orders EXCEPT ![aggressor].remaining = @ - quantity,
                                ![resting].remaining = @ - quantity]
        upd == [dec EXCEPT ![aggressor] = _update_order_status(@),
                           ![resting] = _update_order_status(@)]
        trade == Trade(m.next_trade_id, aggressor, resting, price, quantity,
                       m.orders[aggressor].timestamp)
    IN [m EXCEPT !.orders = upd,
                 !.next_trade_id = @ + 1,
                 !.trades = Append(@, trade),
                 !.fills = Append(@, [trade |-> trade, aggressor |-> aggressor,
                                      resting |-> resting, orders |-> m.orders,
                                      side |-> m.side])]

\* Mutant: the trade is put at the front of the log.
_execute_trade_Prepend(m, aggressor, resting, price, quantity) ==
    LET dec == [m.orders EXCEPT ![aggressor].remaining = @ - quantity,
                                ![resting].remaining = @ - quantity]
        upd == [dec EXCEPT ![aggressor] = _update_order_status(@),
                           ![resting] = _update_order_status(@)]
        buy_id == IF m.orders[aggressor].side = "BUY" THEN aggressor ELSE resting
        sell_id == IF m.orders[aggressor].side = "BUY" THEN resting ELSE aggressor
        trade == Trade(m.next_trade_id, buy_id, sell_id, price, quantity,
                       m.orders[aggressor].timestamp)
    IN [m EXCEPT !.orders = upd,
                 !.next_trade_id = @ + 1,
                 !.trades = <<trade>> \o @,
                 !.fills = Append(@, [trade |-> trade, aggressor |-> aggressor,
                                      resting |-> resting, orders |-> m.orders,
                                      side |-> m.side])]

_execute_trade(m, aggressor, resting, price, quantity) ==
    LET dec == [m.orders EXCEPT ![aggressor].remaining = @ - quantity,
                                ![resting].remaining = @ - quantity]
        upd == [dec EXCEPT ![aggressor] = _update_order_status(@),
                           ![resting] = _update_order_status(@)]
        buy_id == IF m.orders[aggressor].side = "BUY" THEN aggressor ELSE resting
        sell_id == IF m.orders[aggressor].side = "BUY" THEN resting ELSE aggressor
        trade == Trade(m.next_trade_id, buy_id, sell_id, price, quantity,
                       m.orders[aggressor].timestamp)
    IN [m EXCEPT !.orders = upd,
                 !.next_trade_id = @ + 1,
                 !.trades = Append(@, trade),
                 !.fills = Append(@, [trade |-> trade, aggressor |-> aggressor,
                                      resting |-> resting, orders |-> m.orders,
                                      side |-> m.side])]

\* Mutant: each resting order is filled whole, whatever the aggressor has left.
RECURSIVE FillLoop_Whole(_, _, _, _, _)
FillLoop_Whole(m, aggressor, resting_orders, i, price) ==
    IF i > Len(resting_orders) THEN m
    ELSE IF m.orders[aggressor].remaining <= 0 THEN m
    ELSE LET resting == resting_orders[i]
             fill_qty == m.orders[resting].remaining
             m1 == _execute_trade(m, aggressor, resting, price, fill_qty)
             m2 == IF m1.orders[resting].remaining = 0
                   THEN [m1 EXCEPT !.to_remove = Append(@, resting)]
                   ELSE m1
         IN FillLoop_Whole(m2, aggressor, resting_orders, i + 1, price)

\* the loop "for resting in resting_orders" from position i on
RECURSIVE FillLoop(_, _, _, _, _)
FillLoop(m, aggressor, resting_orders, i, price) ==
    IF i > Len(resting_orders) THEN m
    ELSE IF m.orders[aggressor].remaining <= 0 THEN m
    ELSE LET resting == resting_orders[i]
             fill_qty == Min(m.orders[aggressor].remaining, m.orders[resting].remaining)
             m1 == _execute_trade(m, aggressor, resting, price, fill_qty)
             m2 == IF m1.orders[resting].remaining = 0
                   THEN [m1 EXCEPT !.to_remove = Append(@, resting)]
                   ELSE m1
         IN FillLoop(m2, aggressor, resting_orders, i + 1, price)

\* the loop "for order in orders_to_remove: resting_orders.remove(order)"
RECURSIVE RemoveLoop(_, _)
RemoveLoop(resting_orders, to_remove) ==
    IF to_remove = <<>> THEN resting_orders
    ELSE RemoveLoop(ListRemove(resting_orders, Head(to_remove)), Tail(to_remove))

\* Mutant: the queue is walked from its tail.
_fill_at_price_Lifo(m, aggressor, price) ==
    LET q == m.side[price]
        reversed == [i \in DOMAIN q |-> q[Len(q) + 1 - i]]
        m1 == FillLoop([m EXCEPT !.to_remove = <<>>], aggressor, reversed, 1, price)
    IN [m1 EXCEPT !.side[price] = RemoveLoop(m.side[price], m1.to_remove)]

_fill_at_price(m, aggressor, price) ==
    LET m1 == FillLoop([m EXCEPT !.to_remove = <<>>], aggressor, m.side[price], 1, price)
    IN [m1 EXCEPT !.side[price] = RemoveLoop(m.side[price], m1.to_remove)]

\* Mutant: the empty levels are kept.
_cleanup_empty_levels_Keep(side) == side

\* del side[price] for every price whose list is empty
_cleanup_empty_levels(side) ==
    [p \in {q \in DOMAIN side : side[q] # <<>>} |-> side[p]]

\* Mutant: the loop of _match_buy without its price gate.
RECURSIVE MatchBuyLoop_NoGate(_, _, _, _)
MatchBuyLoop_NoGate(m, order, sorted_prices, i) ==
    IF i > Len(sorted_prices) THEN m
    ELSE IF m.orders[order].remaining <= 0 THEN m
    ELSE MatchBuyLoop_NoGate(_fill_at_price(m, order, sorted_prices[i]), order,
                             sorted_prices, i + 1)

\* the loop "for ask_price in sorted_prices" of _match_buy from position i on
RECURSIVE MatchBuyLoop(_, _, _, _)
MatchBuyLoop(m, order, sorted_prices, i) ==
    IF i > Len(sorted_prices) THEN m
    ELSE IF m.orders[order].remaining <= 0 THEN m
    ELSE IF m.orders[order].order_type # "MARKET"
            /\ sorted_prices[i] > m.orders[order].price THEN m
    ELSE MatchBuyLoop(_fill_at_price(m, order, sorted_prices[i]), order,
                      sorted_prices, i + 1)

\* Mutant: the ask prices are walked from the highest down.
_match_buy_Descending(m, order) ==
    LET m1 == MatchBuyLoop(m, order, SortedDesc(_active_prices(m.side)), 1)
    IN [m1 EXCEPT !.side = _cleanup_empty_levels(@)]

_match_buy(m, order) ==
    LET m1 == MatchBuyLoop(m, order, SortedAsc(_active_prices(m.side)), 1)
    IN [m1 EXCEPT !.side = _cleanup_empty_levels(@)]

\* Mutant: the price gate of the sell loop is applied to MARKET orders too.
RECURSIVE MatchSellLoop_GateMarket(_, _, _, _)
MatchSellLoop_GateMarket(m, order, sorted_prices, i) ==
    IF i > Len(sorted_prices) THEN m
    ELSE IF m.orders[order].remaining <= 0 THEN m
    ELSE IF sorted_prices[i] < m.orders[order].price THEN m
    ELSE MatchSellLoop_GateMarket(_fill_at_price(m, order, sorted_prices[i]), order,
                                  sorted_prices, i + 1)

\* the loop "for bid_price in sorted_prices" of _match_sell from position i on
RECURSIVE MatchSellLoop(_, _, _, _)
MatchSellLoop(m, order, sorted_prices, i) ==
    IF i > Len(sorted_prices) THEN m
    ELSE IF m.orders[order].remaining <= 0 THEN m
    ELSE IF m.orders[order].order_type # "MARKET"
            /\ sorted_prices[i] < m.orders[order].price THEN m
    ELSE MatchSellLoop(_fill_at_price(m, order, sorted_prices[i]), order,
                       sorted_prices, i + 1)

\* Mutant: the bids are walked from the lowest price up.
_match_sell_Ascending(m, order) ==
    LET m1 == MatchSellLoop(m, order, SortedAsc(_active_prices(m.side)), 1)
    IN [m1 EXCEPT !.side = _cleanup_empty_levels(@)]

_match_sell(m, order) ==
    LET m1 == MatchSellLoop(m, order, SortedDesc(_active_prices(m.side)), 1)
    IN [m1 EXCEPT !.side = _cleanup_empty_levels(@)]

\* _match_order on the registry with the new order in it; the result's
\* side is the opposing side after matching
_match_order(ords, order) ==
    LET m0 == [orders |-> ords, trades |-> trades, next_trade_id |-> next_trade_id,
               side |-> IF ords[order].side = "BUY" THEN asks ELSE bids,
               to_remove |-> <<>>, fills |-> <<>>]
    IN IF ords[order].side = "BUY" THEN _match_buy(m0, order)
       ELSE _match_sell(m0, order)

\* Mutant: the order is put at the front of its queue.
_add_to_book_Front(side, order) ==
    IF order.price \in DOMAIN side
    THEN [side EXCEPT ![order.price] = <<order.order_id>> \o @]
    ELSE [p \in DOMAIN side \cup {order.price} |->
            IF p = order.price THEN <<order.order_id>> ELSE side[p]]

\* book[order.price].append(order) on a defaultdict(list)
_add_to_book(side, order) ==
    IF order.price \in DOMAIN side
    THEN [side EXCEPT ![order.price] = Append(@, order.order_id)]
    ELSE [p \in DOMAIN side \cup {order.price} |->
            IF p = order.price THEN <<order.order_id>> ELSE side[p]]

\* Mutant: the whole level of the order is dropped.
_remove_from_book_Level(side, order) ==
    [p \in DOMAIN side \ {order.price} |-> side[p]]

\* Mutant: the order is left in its queue.
_remove_from_book_Left(side, order) == side

\* the order's list without the order; the key is deleted when the list is empty
_remove_from_book(side, order) ==
    IF order.price \in DOMAIN side
    THEN LET kept == SelectSeq(side[order.price], LAMBDA id : id # order.order_id)
         IN IF kept = <<>>
            THEN [p \in DOMAIN side \ {order.price} |-> side[p]]
            ELSE [side EXCEPT ![order.price] = kept]
    ELSE side

\* Mutant: only a MARKET order has its residual cancelled.
_handle_post_match_MarketOnly(order, order_type) ==
    IF order.remaining <= 0 THEN "done"
    ELSE IF order_type = "MARKET" THEN "cancel"
    ELSE "rest"

\* Mutant: "remaining < 0" for "remaining <= 0", so that a filled order goes on.
_handle_post_match_FilledGoesOn(order, order_type) ==
    IF order.remaining < 0 THEN "done"
    ELSE IF order_type \in {"IOC", "MARKET"} THEN "cancel"
    ELSE "rest"

\* What _handle_post_match does with the order after matching:
\* "done" (nothing), "cancel" (status = CANCELLED) or "rest" (_add_to_book)
_handle_post_match(order, order_type) ==
    IF order.remaining <= 0 THEN "done"
    ELSE IF order_type \in {"IOC", "MARKET"} THEN "cancel"
    ELSE "rest"

\* Mutant: only a FILLED order is refused.
_validate_cancellable_FilledOnly(order) ==
    IF order.status = "FILLED"
    THEN Raise("ValidationError", "status", order.status)
    ELSE Ok

\* Mutant: only a CANCELLED order is refused.
_validate_cancellable_CancelledOnly(order) ==
    IF order.status = "CANCELLED"
    THEN Raise("ValidationError", "status", order.status)
    ELSE Ok

_validate_cancellable(order) ==
    IF order.status \in {"FILLED", "CANCELLED"}
    THEN Raise("ValidationError", "status", order.status)
    ELSE Ok

\* Mutant: an order that is FILLED or CANCELLED is not found.
_get_order_ActiveOnly(order_id) ==
    IF order_id \notin DOMAIN orders
        \/ orders[order_id].status \in {"FILLED", "CANCELLED"}
    THEN Raise("NotFound", "order_id", order_id)
    ELSE Ok

\* _get_order: OrderNotFoundError when the id is not in the registry
_get_order(order_id) ==
    IF order_id \notin DOMAIN orders THEN Raise("NotFound", "order_id", order_id)
    ELSE Ok

\* What submit_order, cancel_order and get_order return: the Order object
\* of the registry itself, not a copy.  The caller holds a reference, and
\* what it sees through it in a book st is the registry's object there.
Returned(st, order_id) == st.orders[order_id]

\* ------------------------------------------------------------- state
Pre == [tick_size |-> tick_size,
        orders |-> orders, bids |-> bids, asks |-> asks, trades |-> trades,
        next_order_id |-> next_order_id, next_trade_id |-> next_trade_id]

Args(side, price, quantity, order_type, timestamp) ==
    [side |-> side, price |-> price, quantity |-> quantity,
     order_type |-> order_type, timestamp |-> timestamp]

NoArgs == Args("", 0, 0, "", 0)

\* The record of a command: what was called, how it ended, the order it
\* created or cancelled, the state before it and the fills of its matching.
Command(op, result, order_id, args, fills) ==
    [op |-> op, result |-> result, order_id |-> order_id, args |-> args,
     pre |-> Pre, fills |-> fills]

\* Mutant: a tick size of 0 is let through.
__init___ZeroAllowed(ts) ==
    IF ts < 0 THEN Raise("ValueError", "tick_size", ts) ELSE Ok

\* The check of OrderBook.__init__: ValueError, the built-in class, unless
\* the tick size is positive.
__init__(ts) ==
    IF ts <= 0 THEN Raise("ValueError", "tick_size", ts) ELSE Ok

\* OrderBook.__init__ called with one of TickInputs.  When it raises there
\* is no book: the state keeps the empty fields and no operation follows.
Init ==
    \E ts \in TickInputs :
        /\ tick_size = ts
        /\ orders = <<>>
        /\ bids = EmptySide
        /\ asks = EmptySide
        /\ trades = <<>>
        /\ next_order_id = 1
        /\ next_trade_id = 1
        /\ last = [op |-> "init", result |-> __init__(ts), order_id |-> 0,
                   args |-> NoArgs,
                   pre |-> [tick_size |-> ts,
                            orders |-> <<>>, bids |-> EmptySide, asks |-> EmptySide,
                            trades |-> <<>>, next_order_id |-> 1, next_trade_id |-> 1],
                   fills |-> <<>>]

\* There is a book to call: the constructor did not raise.
Constructed == ~(last.op = "init" /\ last.result # Ok)

\* ------------------------------------------------------------ actions
\* submit_order, rejected by _validate_order_params before anything is written
SubmitRejected(side, price, quantity, order_type, timestamp) ==
    /\ _validate_order_params(side, price, quantity, order_type) # Ok
    /\ last' = Command("submit",
                       _validate_order_params(side, price, quantity, order_type),
                       0, NoArgs, <<>>)
    /\ UNCHANGED book

\* submit_order, accepted: create, register, match, dispose of the residual
SubmitAccepted(side, price, quantity, order_type, timestamp) ==
    /\ _validate_order_params(side, price, quantity, order_type) = Ok
    /\ LET id == next_order_id
           created == Append(orders, Order(id, side, price, quantity, order_type, timestamp))
           m == _match_order(created, id)
           post == _handle_post_match(m.orders[id], order_type)
           final == IF post = "cancel"
                    THEN [m.orders EXCEPT ![id].status = "CANCELLED"]
                    ELSE m.orders
           own == IF side = "BUY" THEN bids ELSE asks
           own1 == IF post = "rest" THEN _add_to_book(own, m.orders[id]) ELSE own
       IN /\ orders' = final
          /\ bids' = IF side = "BUY" THEN own1 ELSE m.side
          /\ asks' = IF side = "BUY" THEN m.side ELSE own1
          /\ trades' = m.trades
          /\ next_trade_id' = m.next_trade_id
          /\ next_order_id' = next_order_id + 1
          /\ UNCHANGED tick_size
          /\ last' = Command("submit", Ok, id,
                             Args(side, price, quantity, order_type, timestamp),
                             m.fills)

\* time.time(): the wall clock read when the caller passes no timestamp;
\* it moves on between two accepted submits
WallClock == next_order_id

\* submit_order with its timestamp drawn from TS
submit_order(TS) ==
    /\ Constructed
    /\ next_order_id <= MaxOrders
    /\ \E side \in Sides, order_type \in OrderTypes, quantity \in QtyInputs :
         \E price \in PriceInputs(order_type), timestamp \in TS :
             \/ SubmitRejected(side, price, quantity, order_type, timestamp)
             \/ SubmitAccepted(side, price, quantity, order_type, timestamp)

CancelNotFound(order_id) ==
    /\ _get_order(order_id) # Ok
    /\ last' = Command("cancel", _get_order(order_id), order_id, NoArgs, <<>>)
    /\ UNCHANGED book

CancelRejected(order_id) ==
    /\ _get_order(order_id) = Ok
    /\ _validate_cancellable(orders[order_id]) # Ok
    /\ last' = Command("cancel", _validate_cancellable(orders[order_id]),
                       order_id, NoArgs, <<>>)
    /\ UNCHANGED book

CancelAccepted(order_id) ==
    /\ _get_order(order_id) = Ok
    /\ _validate_cancellable(orders[order_id]) = Ok
    /\ LET order == orders[order_id]
       IN /\ bids' = IF order.side = "BUY" THEN _remove_from_book(bids, order) ELSE bids
          /\ asks' = IF order.side = "BUY" THEN asks ELSE _remove_from_book(asks, order)
          /\ orders' = [orders EXCEPT ![order_id].status = "CANCELLED"]
    /\ last' = Command("cancel", Ok, order_id, NoArgs, <<>>)
    /\ UNCHANGED <<tick_size, trades, next_order_id, next_trade_id>>

\* Ids a caller may ask to cancel: every id allocated so far, and the
\* first one that is not.
IdInputs == 1..next_order_id

cancel_order ==
    /\ Constructed
    /\ \E order_id \in IdInputs :
        \/ CancelNotFound(order_id)
        \/ CancelRejected(order_id)
        \/ CancelAccepted(order_id)

\* Callers that leave the timestamp to the wall clock.
Next == submit_order({WallClock}) \/ cancel_order

Spec == Init /\ [][Next]_vars

\* Callers that supply the timestamps themselves.
NextTs == submit_order(Timestamps) \/ cancel_order

SpecTs == Init /\ [][NextTs]_vars

\* Callers that give a MARKET order a price: _validate_order_params lets any
\* price through for a MARKET order, and the order carries it into matching.
MarketPrices == LimitPrices

SubmitMarketPriced ==
    /\ Constructed
    /\ next_order_id <= MaxOrders
    /\ \E side \in Sides, quantity \in Quantities, price \in MarketPrices :
         SubmitAccepted(side, price, quantity, "MARKET", WallClock)

NextM == submit_order({WallClock}) \/ cancel_order \/ SubmitMarketPriced

SpecM == Init /\ [][NextM]_vars

\* ------------------------------------------------------------ queries
\* Mutant: the query reads self._bids[MIN_PRICE], which on a defaultdict
\* makes the key when it is not there.
Query_Touching(op, result, order_id, args, levels, value) ==
    /\ Constructed
    /\ last' = [op |-> op, result |-> result, order_id |-> order_id,
                args |-> args, pre |-> Pre, fills |-> <<>>,
                levels |-> levels, value |-> value]
    /\ bids' = [p \in DOMAIN bids \cup {MIN_PRICE} |->
                    IF p \in DOMAIN bids THEN bids[p] ELSE <<>>]
    /\ UNCHANGED <<tick_size, orders, asks, trades, next_order_id, next_trade_id>>

\* A query: what was asked, with which arguments, and what came back.
Query(op, result, order_id, args, levels, value) ==
    /\ Constructed
    /\ last' = [op |-> op, result |-> result, order_id |-> order_id,
                args |-> args, pre |-> Pre, fills |-> <<>>,
                levels |-> levels, value |-> value]
    /\ UNCHANGED book

BestBid == Query("best_bid", Ok, 0, NoArgs, 0, best_bid(Pre))
BestAsk == Query("best_ask", Ok, 0, NoArgs, 0, best_ask(Pre))
GetMidprice == Query("get_midprice", Ok, 0, NoArgs, 0, get_midprice(Pre))
GetSpread == Query("get_spread", Ok, 0, NoArgs, 0, get_spread(Pre))
OrderCount == Query("order_count", Ok, 0, NoArgs, 0, order_count(Pre))
TradeCount == Query("trade_count", Ok, 0, NoArgs, 0, trade_count(Pre))
Trades == Query("trades", Ok, 0, NoArgs, 0, trades_copy(Pre))

GetBookDepth ==
    \E levels \in DepthInputs :
        Query("get_book_depth", Ok, 0, NoArgs, levels, get_book_depth(Pre, levels))

GetVwap ==
    \E side \in Sides, quantity \in VwapQuantities :
        Query("get_vwap", Ok, 0, Args(side, 0, quantity, "", 0), 0,
              get_vwap(Pre, side, quantity))

\* get_order: the order of the registry (a reference to it), or NotFound
GetOrder ==
    \E order_id \in IdInputs :
        Query("get_order", _get_order(order_id), order_id, NoArgs, 0,
              IF _get_order(order_id) = Ok THEN Some(order_id) ELSE None)

\* Callers that also ask.
NextQ ==
    \/ submit_order({WallClock})
    \/ cancel_order
    \/ BestBid
    \/ BestAsk
    \/ GetMidprice
    \/ GetSpread
    \/ GetBookDepth
    \/ GetVwap
    \/ GetOrder
    \/ OrderCount
    \/ TradeCount
    \/ Trades

SpecQ == Init /\ [][NextQ]_vars

\* ================================================================
\* Properties
\* ================================================================
SeqToSet(q) == {q[i] : i \in DOMAIN q}

\* the orders held in the queues of a side
Queued(side) == UNION {SeqToSet(side[p]) : p \in DOMAIN side}

InQueue(id) == id \in Queued(bids) \cup Queued(asks)

\* the quantity traded by order id in a trade log
RECURSIVE TradedQty(_, _)
TradedQty(log, id) ==
    IF log = <<>> THEN 0
    ELSE (IF Head(log).buy_order_id = id \/ Head(log).sell_order_id = id
          THEN Head(log).quantity ELSE 0) + TradedQty(Tail(log), id)

\* the trades of a log in which order id takes part
TradesOf(log, id) ==
    {i \in DOMAIN log : log[i].buy_order_id = id \/ log[i].sell_order_id = id}

\* the last command was a submit_order that returned / a cancel_order that returned
Submitted == last.op = "submit" /\ last.result = Ok
Cancelled == last.op = "cancel" /\ last.result = Ok

\* the own and the opposing side of an order, in a state given as a record
OwnSide(st, o) == IF o.side = "BUY" THEN st.bids ELSE st.asks
Now == [tick_size |-> tick_size,
        orders |-> orders, bids |-> bids, asks |-> asks, trades |-> trades,
        next_order_id |-> next_order_id, next_trade_id |-> next_trade_id]

\* the queue at a price of a side, empty when the side has no such key
QueueAt(side, p) == IF p \in DOMAIN side THEN side[p] ELSE <<>>

\* ---------------------------------------------------------------- C1
\* C1: conservation of quantity.  In every state between commands, every
\* registered order has quantity = remaining + the quantity of the trades
\* of the log it takes part in, and 0 <= remaining <= quantity.
C1_Conservation ==
    \A id \in DOMAIN orders :
        /\ orders[id].quantity = orders[id].remaining + TradedQty(trades, id)
        /\ 0 <= orders[id].remaining
        /\ orders[id].remaining <= orders[id].quantity

\* an order that took part in two trades, next to one filled only in part
C1_Witness ==
    /\ \E id \in DOMAIN orders : Cardinality(TradesOf(trades, id)) >= 2
    /\ \E id \in DOMAIN orders :
        /\ 0 < orders[id].remaining
        /\ orders[id].remaining < orders[id].quantity

\* ---------------------------------------------------------------- C2
\* p is a strictly better price than q for an aggressor of the given side
\* to trade at: a lower ask for a BUY, a higher bid for a SELL
BetterFor(side, p, q) == IF side = "BUY" THEN p < q ELSE p > q

\* C2: price priority.  For every trade of a submit_order, immediately
\* before the trade no order on the opposing side with remaining > 0 sits
\* at a price strictly better than the trade's price; and the prices of the
\* trades of one submit never get better from one trade to the next.
C2_PricePriority ==
    Submitted =>
        LET side == last.args.side
            F == last.fills
        IN /\ \A i \in DOMAIN F :
                \A p \in DOMAIN F[i].side :
                    \A k \in DOMAIN F[i].side[p] :
                        F[i].orders[F[i].side[p][k]].remaining > 0
                            => ~BetterFor(side, p, F[i].trade.price)
           /\ \A i, j \in DOMAIN F :
                i < j => ~BetterFor(side, F[j].trade.price, F[i].trade.price)

\* a submit that swept two price levels
C2_Witness ==
    /\ Submitted
    /\ \E i, j \in DOMAIN last.fills :
        last.fills[i].trade.price # last.fills[j].trade.price

\* ---------------------------------------------------------------- C3
\* C3: FIFO within a price level.  Every queue lists its orders by
\* increasing order_id; a resting order is filled only when every order
\* before it in submission order that is still in its queue has remaining
\* 0; and a resting order filled in part is afterwards the head of its queue.
C3_Fifo ==
    /\ \A side \in {bids, asks} :
        \A p \in DOMAIN side :
            \A i, j \in DOMAIN side[p] : i < j => side[p][i] < side[p][j]
    /\ Submitted =>
        \A i \in DOMAIN last.fills :
            LET f == last.fills[i]
                p == f.trade.price
                opp == IF last.args.side = "BUY" THEN asks ELSE bids
            IN /\ \A k \in DOMAIN f.side[p] :
                    f.side[p][k] < f.resting
                        => f.orders[f.side[p][k]].remaining = 0
               /\ orders[f.resting].remaining > 0
                    => /\ p \in DOMAIN opp
                       /\ Head(opp[p]) = f.resting

\* a submit that filled two orders of one level, the second of them in part
C3_Witness ==
    /\ Submitted
    /\ \E i, j \in DOMAIN last.fills :
        /\ i < j
        /\ last.fills[i].trade.price = last.fills[j].trade.price
        /\ orders[last.fills[j].resting].remaining > 0

\* ---------------------------------------------------------------- C4
\* The fills of the last submit in which order b, resting at a level with
\* order a, was filled while a still had remaining > 0.
FilledAhead(a, b) ==
    \E i \in DOMAIN last.fills :
        LET f == last.fills[i]
        IN /\ f.resting = b
           /\ a \in SeqToSet(f.side[f.trade.price])
           /\ f.orders[a].remaining > 0

C5_PriceGate ==
    \A i \in DOMAIN trades :
        LET buy == orders[trades[i].buy_order_id]
            sell == orders[trades[i].sell_order_id]
        IN /\ buy.order_type \in {"LIMIT", "IOC"} => trades[i].price <= buy.price
           /\ sell.order_type \in {"LIMIT", "IOC"} => trades[i].price >= sell.price

\* a LIMIT or IOC order that traded, was left with remaining > 0 and did
\* not touch the orders resting beyond its price
C5_Witness ==
    /\ Submitted
    /\ last.args.order_type \in {"LIMIT", "IOC"}
    /\ last.fills # <<>>
    /\ orders[last.order_id].remaining > 0
    /\ LET opp == IF last.args.side = "BUY" THEN last.pre.asks ELSE last.pre.bids
       IN \E p \in DOMAIN opp :
            /\ BetterFor(last.args.side, last.args.price, p)
            /\ opp[p] # <<>>
            /\ opp[p] = QueueAt(IF last.args.side = "BUY" THEN asks ELSE bids, p)

\* ---------------------------------------------------------------- C6
\* C6: residual of IOC and MARKET.  No MARKET or IOC order is ever in a
\* queue; and a submit of a MARKET or IOC order that returns with
\* remaining > 0 leaves the order CANCELLED, its remaining the quantity
\* less the quantity of its trades, and its own side as it was.
C6_ImmediateResidual ==
    /\ \A id \in DOMAIN orders :
        orders[id].order_type \in {"MARKET", "IOC"} => ~InQueue(id)
    /\ (Submitted /\ last.args.order_type \in {"MARKET", "IOC"}
          /\ orders[last.order_id].remaining > 0) =>
        LET o == orders[last.order_id]
        IN /\ o.status = "CANCELLED"
           /\ o.remaining = o.quantity - TradedQty(trades, o.order_id)
           /\ OwnSide(Now, o) = OwnSide(last.pre, o)

\* an IOC order that traded and had its residual discarded
C6_Witness ==
    /\ Submitted
    /\ last.args.order_type = "IOC"
    /\ last.fills # <<>>
    /\ orders[last.order_id].remaining > 0

\* ---------------------------------------------------------------- C7
\* C7: residual of LIMIT.  A submit of a LIMIT order that ends matching
\* with remaining > 0 appends the order to the queue at its price on its
\* own side, behind the orders that were there, and changes no other queue
\* of that side; its status is PARTIALLY_FILLED if it traded and OPEN if it
\* did not.  A LIMIT order that ends with remaining 0 is FILLED, and its
\* own side is as it was.
C7_LimitResidual ==
    (Submitted /\ last.args.order_type = "LIMIT") =>
        LET o == orders[last.order_id]
            own == OwnSide(Now, o)
            was == OwnSide(last.pre, o)
        IN IF o.remaining > 0
           THEN /\ DOMAIN own = DOMAIN was \cup {o.price}
                /\ own[o.price] = Append(QueueAt(was, o.price), o.order_id)
                /\ \A p \in DOMAIN was : p # o.price => own[p] = was[p]
                /\ o.status = IF last.fills # <<>> THEN "PARTIALLY_FILLED" ELSE "OPEN"
           ELSE /\ o.status = "FILLED"
                /\ own = was

\* a LIMIT order queued behind another one, itself filled in part on arrival
C7_Witness ==
    /\ Submitted
    /\ last.args.order_type = "LIMIT"
    /\ orders[last.order_id].remaining > 0
    /\ LET q == OwnSide(Now, orders[last.order_id])[last.args.price]
       IN /\ Len(q) >= 2
          /\ orders[q[1]].status = "PARTIALLY_FILLED"
          /\ orders[q[1]].order_type = "LIMIT"
          /\ TradesOf(trades, q[1]) # {}
          /\ orders[q[1]].remaining > 0

\* ---------------------------------------------------------------- C8
\* C8: status consistency between commands.  FILLED iff remaining = 0;
\* PARTIALLY_FILLED iff 0 < remaining < quantity and queued; OPEN iff
\* remaining = quantity and queued; CANCELLED iff remaining > 0 and not
\* queued, and an order becomes CANCELLED exactly by a cancel_order of it
\* or by its own submit_order as an IOC or MARKET order with a residual.
C8_StatusConsistency ==
    \A id \in DOMAIN orders :
        LET o == orders[id]
            wasCancelled == /\ id \in DOMAIN last.pre.orders
                            /\ last.pre.orders[id].status = "CANCELLED"
            byCancel == Cancelled /\ last.order_id = id
            byResidual == /\ Submitted
                          /\ last.order_id = id
                          /\ o.order_type \in {"IOC", "MARKET"}
                          /\ o.remaining > 0
        IN /\ o.status = "FILLED" <=> o.remaining = 0
           /\ o.status = "PARTIALLY_FILLED"
                <=> (0 < o.remaining /\ o.remaining < o.quantity /\ InQueue(id))
           /\ o.status = "OPEN" <=> (o.remaining = o.quantity /\ InQueue(id))
           /\ o.status = "CANCELLED" <=> (o.remaining > 0 /\ ~InQueue(id))
           /\ o.status = "CANCELLED" <=> (wasCancelled \/ byCancel \/ byResidual)

\* an IOC order cancelled with 0 < remaining < quantity, next to a FILLED
\* order and an order that was cancelled by cancel_order
C8_Witness ==
    /\ \E id \in DOMAIN orders :
        /\ orders[id].status = "CANCELLED"
        /\ orders[id].order_type = "IOC"
        /\ 0 < orders[id].remaining
        /\ orders[id].remaining < orders[id].quantity
    /\ \E id \in DOMAIN orders : orders[id].status = "FILLED"
    /\ Cancelled

\* ---------------------------------------------------------------- C9
\* C9: a cancel_order that returns was given an OPEN or PARTIALLY_FILLED
\* order; it takes the order out of the queue at its price on its side,
\* keeping the other orders of the queue in their order, drops the level
\* if the queue is then empty, sets the status to CANCELLED, and changes
\* nothing else: no other field of the order, no other order, no other
\* level, the other side, the trade log, the id counters.
C9_CancelEffect ==
    Cancelled =>
        LET id == last.order_id
            was == last.pre.orders[id]
            own == OwnSide(Now, was)
            ownWas == OwnSide(last.pre, was)
            kept == SelectSeq(ownWas[was.price], LAMBDA x : x # id)
        IN /\ was.status \in {"OPEN", "PARTIALLY_FILLED"}
           /\ id \in SeqToSet(ownWas[was.price])
           /\ orders = [last.pre.orders EXCEPT ![id].status = "CANCELLED"]
           /\ DOMAIN own = IF kept = <<>> THEN DOMAIN ownWas \ {was.price}
                           ELSE DOMAIN ownWas
           /\ \A p \in DOMAIN own :
                own[p] = IF p = was.price THEN kept ELSE ownWas[p]
           /\ was.side = "BUY" => asks = last.pre.asks
           /\ was.side = "SELL" => bids = last.pre.bids
           /\ trades = last.pre.trades
           /\ next_order_id = last.pre.next_order_id
           /\ next_trade_id = last.pre.next_trade_id

\* the cancel of the order at the head of a queue of two
C9_Witness ==
    /\ Cancelled
    /\ LET was == last.pre.orders[last.order_id]
           ownWas == OwnSide(last.pre, was)
       IN /\ Len(ownWas[was.price]) = 2
          /\ Head(ownWas[was.price]) = last.order_id

\* the cancel of a partly filled order, the only one of its level, which
\* drops the level
C9_WitnessLevel ==
    /\ Cancelled
    /\ LET was == last.pre.orders[last.order_id]
       IN /\ was.status = "PARTIALLY_FILLED"
          /\ was.price \notin DOMAIN OwnSide(Now, was)

\* --------------------------------------------------------------- C10
\* C10: a cancel_order fails with NotFound exactly when its id was never
\* allocated and with ValidationError exactly when the order is FILLED or
\* CANCELLED, so that the cancel of a cancelled order and of a MARKET or
\* IOC order fails; a cancel that fails leaves the registry, both sides,
\* the trade log and the id counters as they were.
C10_CancelRejected ==
    last.op = "cancel" =>
        LET id == last.order_id
            known == id \in DOMAIN last.pre.orders
        IN /\ last.result.kind = "NotFound" <=> ~known
           /\ last.result.kind = "NotFound" <=> id >= last.pre.next_order_id
           /\ last.result.kind = "ValidationError"
                <=> (known /\ last.pre.orders[id].status \in {"FILLED", "CANCELLED"})
           /\ (known /\ last.pre.orders[id].order_type \in {"MARKET", "IOC"})
                => last.result.kind = "ValidationError"
           /\ last.result # Ok => Now = last.pre

\* the second cancel of an order, refused, with orders resting in the book
C10_Witness ==
    /\ last.op = "cancel"
    /\ last.result.kind = "ValidationError"
    /\ last.pre.orders[last.order_id].status = "CANCELLED"
    /\ last.pre.orders[last.order_id].order_type = "LIMIT"
    /\ bids # EmptySide
    /\ asks # EmptySide

\* the cancel of an id never allocated, refused
C10_WitnessNotFound ==
    /\ last.op = "cancel"
    /\ last.result.kind = "NotFound"
    /\ orders # <<>>

\* --------------------------------------------------------------- C11
\* C11: a submit_order fails only with ValidationError, on a quantity that
\* is <= 0 or > MAX_ORDER_QUANTITY or on a price < MIN_PRICE, and then the
\* registry, both sides, the trade log and the id counters are as they
\* were, so that no id is used up.  A submit_order that returns had a
\* quantity in (0, MAX_ORDER_QUANTITY] and, unless it was a MARKET order,
\* a price >= MIN_PRICE; a MARKET order's price is not looked at.
C11_SubmitRejected ==
    last.op = "submit" =>
        IF last.result = Ok
        THEN /\ 0 < last.args.quantity
             /\ last.args.quantity <= MAX_ORDER_QUANTITY
             /\ last.args.order_type # "MARKET" => last.args.price >= MIN_PRICE
             /\ last.order_id = last.pre.next_order_id
        ELSE /\ last.result.kind = "ValidationError"
             /\ last.result.field \in {"Quantity", "Price"}
             /\ last.result.field = "Quantity"
                    => (last.result.got <= 0 \/ last.result.got > MAX_ORDER_QUANTITY)
             /\ last.result.field = "Price" => last.result.got < MIN_PRICE
             /\ Now = last.pre

\* a submit refused for its price while orders rest on both sides of the book
C11_Witness ==
    /\ last.op = "submit"
    /\ last.result.kind = "ValidationError"
    /\ last.result.field = "Price"
    /\ bids # EmptySide
    /\ asks # EmptySide

\* a submit refused for a quantity above MAX_ORDER_QUANTITY
C11_WitnessTooLarge ==
    /\ last.op = "submit"
    /\ last.result.field = "Quantity"
    /\ last.result.got > MAX_ORDER_QUANTITY
    /\ orders # <<>>

\* a MARKET order accepted with a price below MIN_PRICE
C11_WitnessMarket ==
    /\ Submitted
    /\ last.args.order_type = "MARKET"
    /\ last.args.price < MIN_PRICE

\* --------------------------------------------------------------- C12
\* C12 as stated: a construction with tick_size <= 0 fails with the error
\* kind that a bad quantity, a bad price and the cancel of a terminal order
\* fail with.
C12_ConstructionValidationError ==
    (last.op = "init" /\ tick_size <= 0) =>
        /\ last.result # Ok
        /\ last.result.kind = _validate_order_params("BUY", MIN_PRICE, 0, "LIMIT").kind
        /\ last.result.kind = _validate_order_params("BUY", MIN_PRICE - 1, 1, "LIMIT").kind
        /\ last.result.kind = _validate_cancellable([status |-> "FILLED"]).kind

\* C12 amended: a construction fails exactly when tick_size <= 0, and then
\* with ValueError, which is not the kind that a bad quantity, a bad price
\* and the cancel of a terminal order fail with; a construction with
\* tick_size > 0 gives an empty book: no order, no trade, no level,
\* order_count 0, trade_count 0, no best bid and no best ask.
C12_Construction ==
    last.op = "init" =>
        /\ last.result # Ok <=> tick_size <= 0
        /\ last.result # Ok =>
            /\ last.result.kind = "ValueError"
            /\ last.result.got = tick_size
            /\ last.result.kind # _validate_order_params("BUY", MIN_PRICE, 0, "LIMIT").kind
            /\ last.result.kind # _validate_order_params("BUY", MIN_PRICE - 1, 1, "LIMIT").kind
            /\ last.result.kind # _validate_cancellable([status |-> "FILLED"]).kind
        /\ last.result = Ok =>
            /\ orders = <<>> /\ trades = <<>>
            /\ bids = EmptySide /\ asks = EmptySide
            /\ next_order_id = 1 /\ next_trade_id = 1
            /\ order_count(Now) = 0
            /\ trade_count(Now) = 0
            /\ best_bid(Now) = None
            /\ best_ask(Now) = None

\* a construction with tick_size 0, which raised
C12_Witness ==
    /\ last.op = "init"
    /\ tick_size = 0
    /\ last.result # Ok

\* a construction that gave a book
C12_WitnessBook ==
    /\ last.op = "init"
    /\ last.result = Ok

\* --------------------------------------------------------------- C13
\* C13: snapshot isolation of orders.  Every registered order was returned
\* by its submit_order; the value seen through what was returned is, after
\* a later submit_order or cancel_order, what it was before it.
C13_SnapshotIsolation ==
    (Submitted \/ Cancelled) =>
        \A id \in DOMAIN last.pre.orders :
            Returned(Now, id) = Returned(last.pre, id)

\* a submit that filled an order returned by an earlier submit
C13_Witness ==
    /\ Submitted
    /\ \E i \in DOMAIN last.fills :
        /\ last.fills[i].resting \in DOMAIN last.pre.orders
        /\ Returned(Now, last.fills[i].resting).remaining
             < Returned(last.pre, last.fills[i].resting).remaining

\* --------------------------------------------------------------- C14
\* C14: id allocation.  The k-th order of the registry has order_id k and
\* the j-th trade of the log has trade_id j, both counted from 1, and each
\* counter is one more than the number of ids given out; a submit_order
\* that returns took the id the counter showed and moved it on by one, and
\* no other command moves the order counter; no counter ever goes back.
C14_IdAllocation ==
    /\ \A k \in DOMAIN orders : orders[k].order_id = k
    /\ next_order_id = Len(orders) + 1
    /\ \A j \in DOMAIN trades : trades[j].trade_id = j
    /\ next_trade_id = Len(trades) + 1
    /\ \A i, j \in DOMAIN trades : i < j => trades[i].trade_id < trades[j].trade_id
    /\ IF Submitted
       THEN /\ last.order_id = last.pre.next_order_id
            /\ next_order_id = last.pre.next_order_id + 1
            /\ next_trade_id = last.pre.next_trade_id + Len(last.fills)
       ELSE /\ next_order_id = last.pre.next_order_id
            /\ next_trade_id = last.pre.next_trade_id

\* the third order accepted, after an order was filled or cancelled, with
\* two trades or more in the log
C14_Witness ==
    /\ Submitted
    /\ last.order_id = 3
    /\ Len(trades) >= 2
    /\ \E id \in DOMAIN last.pre.orders :
        last.pre.orders[id].status \in {"FILLED", "CANCELLED"}

\* --------------------------------------------------------------- C15
\* C15: registry completeness and retention.  The registry holds exactly
\* the ids allocated so far, 1 .. next_order_id - 1, whatever became of the
\* orders, and loses none; get_order finds every one of them and raises
\* NotFound for any other id; and the buyer and the seller of every trade
\* of the log are found.
C15_RegistryCompleteness ==
    /\ \A id \in 0..(MaxOrders + 1) :
        _get_order(id) = Ok <=> (1 <= id /\ id < next_order_id)
    /\ \A id \in 0..(MaxOrders + 1) :
        _get_order(id) # Ok => _get_order(id).kind = "NotFound"
    /\ DOMAIN last.pre.orders \subseteq DOMAIN orders
    /\ \A i \in DOMAIN trades :
        /\ _get_order(trades[i].buy_order_id) = Ok
        /\ _get_order(trades[i].sell_order_id) = Ok
    /\ last.op = "get_order" =>
        IF 1 <= last.order_id /\ last.order_id < next_order_id
        THEN /\ last.result = Ok
             /\ last.value = Some(last.order_id)
             /\ Returned(Now, last.order_id).order_id = last.order_id
        ELSE /\ last.result.kind = "NotFound"
             /\ last.value = None

\* get_order of an IOC or MARKET order that never rested, in a book that
\* also holds a FILLED order
C15_Witness ==
    /\ last.op = "get_order"
    /\ last.result = Ok
    /\ orders[last.order_id].order_type \in {"IOC", "MARKET"}
    /\ orders[last.order_id].status = "CANCELLED"
    /\ \E id \in DOMAIN orders : orders[id].status = "FILLED"

\* get_order of an id never allocated
C15_WitnessNotFound ==
    /\ last.op = "get_order"
    /\ last.result.kind = "NotFound"
    /\ orders # <<>>

\* --------------------------------------------------------------- C16
\* C16: no empty levels retained.  Between commands, whether the last one
\* returned or raised, no price key of either side has an empty queue and
\* no queued order has remaining 0; a level whose orders were all filled
\* by a submit_order, or whose only order was cancelled, is gone.
C16_NoEmptyLevels ==
    /\ \A side \in {bids, asks} :
        \A p \in DOMAIN side :
            /\ side[p] # <<>>
            /\ \A k \in DOMAIN side[p] : orders[side[p][k]].remaining > 0
    /\ Submitted =>
        LET was == IF last.args.side = "BUY" THEN last.pre.asks ELSE last.pre.bids
            opp == IF last.args.side = "BUY" THEN asks ELSE bids
        IN \A p \in DOMAIN was :
            (\A k \in DOMAIN was[p] : orders[was[p][k]].remaining = 0)
                => p \notin DOMAIN opp
    /\ Cancelled =>
        LET o == last.pre.orders[last.order_id]
        IN OwnSide(last.pre, o)[o.price] = <<last.order_id>>
                => o.price \notin DOMAIN OwnSide(Now, o)

\* a submit that consumed the whole of one level and left another one
C16_Witness ==
    /\ Submitted
    /\ LET was == IF last.args.side = "BUY" THEN last.pre.asks ELSE last.pre.bids
           opp == IF last.args.side = "BUY" THEN asks ELSE bids
       IN /\ \E p \in DOMAIN was : p \notin DOMAIN opp
          /\ opp # EmptySide

\* a refused cancel, after the cancel of the last order of a level
C16_WitnessCancel ==
    /\ last.op = "cancel"
    /\ last.result.kind = "ValidationError"
    /\ last.pre.orders[last.order_id].status = "CANCELLED"
    /\ last.pre.orders[last.order_id].order_type = "LIMIT"
    /\ bids = EmptySide
    /\ asks = EmptySide

\* --------------------------------------------------------------- C17
\* the prices at which an OPEN or PARTIALLY_FILLED order of a side rests
RestingPrices(side) ==
    {orders[id].price : id \in {i \in DOMAIN orders :
        /\ orders[i].side = side
        /\ orders[i].status \in {"OPEN", "PARTIALLY_FILLED"}
        /\ InQueue(i)}}

\* v is the best of a set of prices, or None when there is none
IsBest(v, prices, side) ==
    IF prices = {} THEN v = None
    ELSE \E p \in prices :
            /\ v = Some(p)
            /\ \A q \in prices : IF side = "BUY" THEN q <= p ELSE q >= p

\* C17: best quotes.  In every state best_bid is the highest price at which
\* an OPEN or PARTIALLY_FILLED BUY order rests and best_ask the lowest at
\* which such a SELL order rests, None when there is no such order;
\* get_spread and get_midprice are None exactly when one of the two is,
\* and otherwise best_ask - best_bid and (best_bid + best_ask) / 2; and a
\* call of any of the four returns that value.
C17_BestQuotes ==
    LET bid == best_bid(Now)
        ask == best_ask(Now)
        spread == get_spread(Now)
        mid == get_midprice(Now)
    IN /\ IsBest(bid, RestingPrices("BUY"), "BUY")
       /\ IsBest(ask, RestingPrices("SELL"), "SELL")
       /\ spread = None <=> (bid = None \/ ask = None)
       /\ mid = None <=> (bid = None \/ ask = None)
       /\ spread # None => spread = Some(ask[1] - bid[1])
       /\ mid # None => 2 * mid[1].num = (bid[1] + ask[1]) * mid[1].den
       /\ last.op = "best_bid" => last.value = bid
       /\ last.op = "best_ask" => last.value = ask
       /\ last.op = "get_spread" => last.value = spread
       /\ last.op = "get_midprice" => last.value = mid

\* best_bid asked of a book with bids at two prices and a BUY order that
\* no longer rests
C17_Witness ==
    /\ last.op = "best_bid"
    /\ Cardinality(RestingPrices("BUY")) = 2
    /\ \E id \in DOMAIN orders :
        /\ orders[id].side = "BUY"
        /\ orders[id].status \in {"FILLED", "CANCELLED"}

\* get_midprice asked of a book with a bid and an ask, the bid filled in part
C17_WitnessMid ==
    /\ last.op = "get_midprice"
    /\ last.value # None
    /\ \E id \in Queued(bids) : orders[id].status = "PARTIALLY_FILLED"

\* get_spread asked of a book with asks, no bid and a cancelled BUY order
C17_WitnessNone ==
    /\ last.op = "get_spread"
    /\ last.value = None
    /\ asks # EmptySide
    /\ \E id \in DOMAIN orders :
        orders[id].side = "BUY" /\ orders[id].status = "CANCELLED"

\* --------------------------------------------------------------- C18
\* the orders of a side that rest at price p
RestingAt(side, p) ==
    {id \in DOMAIN orders :
        /\ orders[id].side = side
        /\ orders[id].price = p
        /\ orders[id].status \in {"OPEN", "PARTIALLY_FILLED"}
        /\ InQueue(id)}

\* the sum of remaining over a set of orders
RECURSIVE TotalRemaining(_)
TotalRemaining(ids) ==
    IF ids = {} THEN 0
    ELSE LET id == CHOOSE x \in ids : TRUE
         IN orders[id].remaining + TotalRemaining(ids \ {id})

\* the sum of quantity over a list of levels
RECURSIVE LevelsQuantity(_)
LevelsQuantity(lv) ==
    IF lv = <<>> THEN 0 ELSE Head(lv).quantity + LevelsQuantity(Tail(lv))

\* lv is what get_book_depth(n) gives for a side: at most n levels, best
\* price first and strictly worse from one to the next, the n best of the
\* side; each with the total remaining and the number of the orders resting
\* at its price; all of the side's remaining when n covers its prices
DepthOf(lv, side, n) ==
    LET prices == RestingPrices(side)
        listed == {lv[i].price : i \in DOMAIN lv}
    IN /\ Len(lv) <= n
       /\ Len(lv) = Min(n, Cardinality(prices))
       /\ \A i, j \in DOMAIN lv :
            i < j => BetterFor(IF side = "BUY" THEN "SELL" ELSE "BUY",
                               lv[i].price, lv[j].price)
       /\ listed \subseteq prices
       /\ \A p \in prices \ listed : \A q \in listed :
            BetterFor(IF side = "BUY" THEN "SELL" ELSE "BUY", q, p)
       /\ \A i \in DOMAIN lv :
            /\ lv[i].quantity = TotalRemaining(RestingAt(side, lv[i].price))
            /\ lv[i].order_count = Cardinality(RestingAt(side, lv[i].price))
            /\ lv[i].quantity > 0
       /\ n >= Cardinality(prices) =>
            LevelsQuantity(lv) = TotalRemaining(UNION {RestingAt(side, p) : p \in prices})

\* C18: depth.  get_book_depth(N) gives, for the bids and for the asks, the
\* N best levels of the side, or all of them when there are fewer: bids by
\* strictly decreasing price and asks by strictly increasing price, each
\* level with the sum of remaining and the number of the orders resting at
\* its price, so that the levels sum to the side's total remaining when N
\* covers the side; and this holds of every N after every command.
C18_Depth ==
    /\ last.op \in {"init", "submit", "cancel"} =>
        \A n \in DepthInputs :
            /\ DepthOf(get_book_depth(Now, n)[1], "BUY", n)
            /\ DepthOf(get_book_depth(Now, n)[2], "SELL", n)
    /\ last.op = "get_book_depth" =>
        /\ DepthOf(last.value[1], "BUY", last.levels)
        /\ DepthOf(last.value[2], "SELL", last.levels)

\* get_book_depth(1) of a book with asks at two prices, one of them resting
\* after a fill in part
C18_Witness ==
    /\ last.op = "get_book_depth"
    /\ last.levels = 1
    /\ Cardinality(RestingPrices("SELL")) = 2
    /\ \E id \in Queued(asks) : orders[id].status = "PARTIALLY_FILLED"

\* get_book_depth(2) of a book with two orders at one price, whose
\* remaining is not the same
C18_WitnessLevel ==
    /\ last.op = "get_book_depth"
    /\ last.levels = 2
    /\ \E i \in DOMAIN last.value[1] :
        /\ last.value[1][i].order_count = 2
        /\ last.value[1][i].quantity = 3

\* --------------------------------------------------------------- C19
Opposite(side) == IF side = "BUY" THEN "SELL" ELSE "BUY"

\* what a sweep of quantity q by an aggressor of the given side takes at
\* price p of the opposing side: what is left of q after the levels at
\* better prices, up to the level's remaining
Taken(side, q, p) ==
    LET opp == Opposite(side)
        ahead == TotalRemaining(UNION {RestingAt(opp, b) :
                    b \in {x \in RestingPrices(opp) : BetterFor(side, x, p)}})
        level == TotalRemaining(RestingAt(opp, p))
    IN IF q - ahead <= 0 THEN 0 ELSE Min(q - ahead, level)

\* the sum of p * Taken(side, q, p) over a set of prices
RECURSIVE SweepCost(_, _, _)
SweepCost(side, q, prices) ==
    IF prices = {} THEN 0
    ELSE LET p == CHOOSE x \in prices : TRUE
         IN p * Taken(side, q, p) + SweepCost(side, q, prices \ {p})

\* the sums of quantity and of price * quantity over the trades of a list of fills
RECURSIVE FillsQuantity(_)
FillsQuantity(F) ==
    IF F = <<>> THEN 0 ELSE Head(F).trade.quantity + FillsQuantity(Tail(F))

RECURSIVE FillsCost(_)
FillsCost(F) ==
    IF F = <<>> THEN 0
    ELSE Head(F).trade.quantity * Head(F).trade.price + FillsCost(Tail(F))

\* the fills of a MARKET order of the given side and quantity submitted in
\* the present state
MarketFills(side, q) ==
    _match_order(Append(orders, Order(next_order_id, side, 0, q, "MARKET", WallClock)),
                 next_order_id).fills

\* v is what get_vwap(side, q) is to give in the present state
VwapOf(v, side, q) ==
    LET opp == Opposite(side)
        prices == RestingPrices(opp)
        total == TotalRemaining(UNION {RestingAt(opp, p) : p \in prices})
        swept == {p \in prices : Taken(side, q, p) > 0}
        F == MarketFills(side, q)
    IN IF total < q THEN v = None
       ELSE /\ v # None
            /\ v[1].den = q
            /\ v[1].num = SweepCost(side, q, prices)
            /\ \E best \in swept, worst \in swept :
                /\ \A x \in prices : ~BetterFor(side, x, best)
                /\ \A x \in swept : ~BetterFor(side, worst, x)
                /\ IF side = "BUY"
                   THEN best * v[1].den <= v[1].num /\ v[1].num <= worst * v[1].den
                   ELSE worst * v[1].den <= v[1].num /\ v[1].num <= best * v[1].den
            /\ FillsQuantity(F) = q
            /\ v[1].num * FillsQuantity(F) = FillsCost(F) * v[1].den

\* C19: VWAP.  get_vwap(side, q) is None when the opposing side's total
\* remaining is less than q; otherwise it is cost / q, where cost sums
\* price * f over the opposing levels in priority order with f the lesser
\* of what is still needed and the level's quantity; it lies between the
\* best opposing price and the price of the worst level swept; and it is
\* the quantity-weighted average price of the trades that a MARKET order of
\* that side and quantity would make in that state.
C19_Vwap ==
    /\ last.op \in {"init", "submit", "cancel"} =>
        \A side \in Sides, q \in VwapQuantities :
            VwapOf(get_vwap(Now, side, q), side, q)
    /\ last.op = "get_vwap" =>
        VwapOf(last.value, last.args.side, last.args.quantity)

\* get_vwap of a quantity that takes all of the best level and part of the
\* next one, its value strictly between the two prices
C19_Witness ==
    /\ last.op = "get_vwap"
    /\ last.value # None
    /\ \E p, r \in RestingPrices(Opposite(last.args.side)) :
        /\ p # r
        /\ Taken(last.args.side, last.args.quantity, p) > 0
        /\ Taken(last.args.side, last.args.quantity, r) > 0
        /\ Taken(last.args.side, last.args.quantity, r)
             < TotalRemaining(RestingAt(Opposite(last.args.side), r))
        /\ p * last.value[1].den < last.value[1].num
        /\ last.value[1].num < r * last.value[1].den

\* get_vwap of more than the opposing side holds, which holds something
C19_WitnessNone ==
    /\ last.op = "get_vwap"
    /\ last.value = None
    /\ RestingPrices(Opposite(last.args.side)) # {}

\* --------------------------------------------------------------- C20
QueryOps ==
    {"best_bid", "best_ask", "get_midprice", "get_spread", "get_book_depth",
     "get_vwap", "get_order", "order_count", "trade_count", "trades"}

\* what the query recorded in last would return if it were asked again now
AskedAgain ==
    CASE last.op = "best_bid" -> best_bid(Now)
      [] last.op = "best_ask" -> best_ask(Now)
      [] last.op = "get_midprice" -> get_midprice(Now)
      [] last.op = "get_spread" -> get_spread(Now)
      [] last.op = "get_book_depth" -> get_book_depth(Now, last.levels)
      [] last.op = "get_vwap" -> get_vwap(Now, last.args.side, last.args.quantity)
      [] last.op = "get_order" ->
            IF _get_order(last.order_id) = Ok THEN Some(last.order_id) ELSE None
      [] last.op = "order_count" -> order_count(Now)
      [] last.op = "trade_count" -> trade_count(Now)
      [] last.op = "trades" -> trades_copy(Now)

\* C20: queries are read-only.  After any of the ten queries the registry,
\* both sides with their price keys, the trade log and the id counters are
\* what they were before it, so that a command after it meets the book it
\* would have met without it; and the same query asked again, after any
\* number of queries, returns what it returned.
C20_QueriesReadOnly ==
    last.op \in QueryOps =>
        /\ Now = last.pre
        /\ DOMAIN bids = DOMAIN last.pre.bids
        /\ DOMAIN asks = DOMAIN last.pre.asks
        /\ AskedAgain = last.value
        /\ last.op = "get_order" =>
            (last.result = Ok <=> _get_order(last.order_id) = Ok)

\* a query of a book with orders resting on both sides and a trade in its log
C20_Witness ==
    /\ last.op \in QueryOps
    /\ bids # EmptySide
    /\ asks # EmptySide
    /\ trades # <<>>

\* best_bid asked of a book with no bid at MIN_PRICE
C20_WitnessNoKey ==
    /\ last.op = "best_bid"
    /\ MIN_PRICE \notin DOMAIN bids
    /\ orders # <<>>

\* --------------------------------------------------------------- C21
\* how many times order id occurs in the queues of a side
Occurrences(side, id) ==
    Cardinality({<<p, k>> \in UNION {{<<p, k>> : k \in DOMAIN side[p]} : p \in DOMAIN side} :
                    side[p][k] = id})

\* the number of orders held in the queues of a side
RECURSIVE Held(_, _)
Held(side, prices) ==
    IF prices = {} THEN 0
    ELSE LET p == CHOOSE x \in prices : TRUE
         IN Len(side[p]) + Held(side, prices \ {p})

\* C21: queue membership.  Between commands the orders held in the bid and
\* ask queues are exactly the registered orders that are OPEN or
\* PARTIALLY_FILLED; each of them is a LIMIT order with remaining > 0 that
\* occurs once, in the side of its own side and at the key of its own price;
\* so order_count is the number of orders held in the two sides.
C21_QueueMembership ==
    /\ Queued(bids) \cup Queued(asks)
         = {id \in DOMAIN orders : orders[id].status \in {"OPEN", "PARTIALLY_FILLED"}}
    /\ \A id \in Queued(bids) \cup Queued(asks) :
        LET o == orders[id]
            own == IF o.side = "BUY" THEN bids ELSE asks
            other == IF o.side = "BUY" THEN asks ELSE bids
        IN /\ o.order_type = "LIMIT"
           /\ o.remaining > 0
           /\ Occurrences(own, id) = 1
           /\ Occurrences(other, id) = 0
           /\ o.price \in DOMAIN own
           /\ id \in SeqToSet(own[o.price])
    /\ order_count(Now) = Held(bids, DOMAIN bids) + Held(asks, DOMAIN asks)

\* orders held on both sides, one of them filled in part, next to a FILLED
\* order that is held in neither
C21_Witness ==
    /\ \E id \in DOMAIN orders : orders[id].status = "FILLED" /\ ~InQueue(id)
    /\ bids # EmptySide
    /\ asks # EmptySide
    /\ \E id \in Queued(bids) \cup Queued(asks) : orders[id].status = "PARTIALLY_FILLED"

\* the cancel of one of two resting orders, which leaves the other held
C21_WitnessCancel ==
    /\ Cancelled
    /\ ~InQueue(last.order_id)
    /\ order_count(Now) = 1
    /\ order_count(last.pre) = 2

\* --------------------------------------------------------------- C22
\* C22: trade record.  Every trade of the log names as buyer an order of
\* side BUY and as seller an order of side SELL, two orders; of the two the
\* one submitted first was resting and the other was the aggressor, and
\* the trade carries the resting order's price and the aggressor's
\* timestamp; the trades of a submit_order have the submitted order as
\* aggressor and an order of the opposing queues as resting order.
C22_TradeRecord ==
    /\ \A i \in DOMAIN trades :
        LET t == trades[i]
            resting == Min(t.buy_order_id, t.sell_order_id)
            aggressor == IF resting = t.buy_order_id THEN t.sell_order_id
                         ELSE t.buy_order_id
        IN /\ t.buy_order_id \in DOMAIN orders
           /\ t.sell_order_id \in DOMAIN orders
           /\ orders[t.buy_order_id].side = "BUY"
           /\ orders[t.sell_order_id].side = "SELL"
           /\ t.buy_order_id # t.sell_order_id
           /\ t.price = orders[resting].price
           /\ t.timestamp = orders[aggressor].timestamp
    /\ Submitted =>
        \A i \in DOMAIN last.fills :
            LET f == last.fills[i]
            IN /\ f.aggressor = last.order_id
               /\ f.resting \in DOMAIN last.pre.orders
               /\ f.resting \in Queued(IF last.args.side = "BUY" THEN last.pre.asks
                                       ELSE last.pre.bids)
               /\ {f.trade.buy_order_id, f.trade.sell_order_id} = {f.aggressor, f.resting}
               /\ f.trade.price = orders[f.resting].price
               /\ f.trade.timestamp = last.args.timestamp

\* a trade of a LIMIT SELL aggressor at the resting buyer's price, which is
\* not the aggressor's, and with the aggressor's timestamp, which is not
\* the resting order's
C22_Witness ==
    /\ Submitted
    /\ last.args.side = "SELL"
    /\ last.args.order_type = "LIMIT"
    /\ \E i \in DOMAIN last.fills :
        /\ last.fills[i].trade.price # last.args.price
        /\ last.fills[i].trade.timestamp # orders[last.fills[i].resting].timestamp
        /\ last.fills[i].trade.buy_order_id = last.fills[i].resting

\* --------------------------------------------------------------- C23
\* the remaining of order id immediately after the i-th trade of the last
\* submit: what the next trade found, or what the submit left
RemainingAfter(i, id) ==
    IF i < Len(last.fills) THEN last.fills[i + 1].orders[id].remaining
    ELSE orders[id].remaining

\* C23: per-trade effect.  Every trade of a submit_order has the quantity
\* q = min(aggressor.remaining, resting.remaining) as they were immediately
\* before it, and q > 0; the two orders had remaining >= q and have q less
\* after it, and no other order's remaining is changed by it; an order of
\* the opposing queues is out of its queue after the submit exactly when a
\* trade of the submit brought its remaining to 0.
C23_PerTradeEffect ==
    Submitted =>
        /\ \A i \in DOMAIN last.fills :
            LET f == last.fills[i]
                q == f.trade.quantity
            IN /\ q = Min(f.orders[f.aggressor].remaining, f.orders[f.resting].remaining)
               /\ q > 0
               /\ f.orders[f.aggressor].remaining >= q
               /\ f.orders[f.resting].remaining >= q
               /\ \A id \in DOMAIN f.orders :
                    RemainingAfter(i, id) =
                        IF id \in {f.aggressor, f.resting}
                        THEN f.orders[id].remaining - q
                        ELSE f.orders[id].remaining
        /\ \A id \in Queued(IF last.args.side = "BUY" THEN last.pre.asks ELSE last.pre.bids) :
            ~InQueue(id) <=>
                \E i \in DOMAIN last.fills :
                    last.fills[i].resting = id /\ RemainingAfter(i, id) = 0

\* a submit whose first trade took a resting order whole, out of its queue,
\* and whose second trade took part of the next, which stays in its queue
C23_Witness ==
    /\ Submitted
    /\ Len(last.fills) = 2
    /\ ~InQueue(last.fills[1].resting)
    /\ InQueue(last.fills[2].resting)
    /\ orders[last.fills[2].resting].remaining > 0

\* --------------------------------------------------------------- C24
\* the trades the last operation returned: those of its fills, in order
ReturnedTrades == [i \in 1..Len(last.fills) |-> last.fills[i].trade]

\* C24: the trade log is append-only and submit is atomic.  After an
\* accepted submit_order the log is the log before it followed by exactly
\* the trades the submit returned, in the order returned; after cancel_order,
\* a rejected command or a query the log is the log before it; so the
\* entries already in the log keep their place and content, trade_count
\* never decreases and grows by the number of trades each submit returns,
\* from 0 at construction: it is the number of trades returned so far, which
\* is the number of trade ids handed out.
C24_AppendOnly ==
    /\ last.op = "init" => trades = <<>>
    /\ Submitted => trades = last.pre.trades \o ReturnedTrades
    /\ (last.op # "init" /\ ~Submitted) =>
            /\ trades = last.pre.trades
            /\ last.fills = <<>>
    /\ \A i \in DOMAIN last.pre.trades :
            i \in DOMAIN trades /\ trades[i] = last.pre.trades[i]
    /\ trade_count(Now) = trade_count(last.pre) + Len(last.fills)
    /\ trade_count(Now) >= trade_count(last.pre)
    /\ trade_count(Now) = next_trade_id - 1

\* a submit that returned a trade when the log already held one
C24_Witness ==
    /\ Submitted
    /\ Len(last.pre.trades) = 1
    /\ Len(last.fills) = 1
    /\ Len(trades) = 2

\* a submit that returned two trades at once
C24_WitnessTwo ==
    /\ Submitted
    /\ Len(last.fills) = 2
    /\ Len(trades) = 2

\* a cancel, a rejected submit and a query of the log, each on a log that holds a trade
C24_WitnessCancel == Cancelled /\ Len(trades) = 1

C24_WitnessRejected ==
    last.op = "submit" /\ last.result # Ok /\ Len(trades) = 1

C24_WitnessQuery == last.op = "trades" /\ Len(trades) = 1

\* --------------------------------------------------------------- C25
\* the sum of remaining, in a registry, over a set of orders
RECURSIVE RemainingIn(_, _)
RemainingIn(ords, ids) ==
    IF ids = {} THEN 0
    ELSE LET id == CHOOSE x \in ids : TRUE
         IN ords[id].remaining + RemainingIn(ords, ids \ {id})

\* the side opposing the last submit as it was before the submit, and the
\* orders resting there that the submitted order may trade with
OpposingBefore == IF last.args.side = "BUY" THEN last.pre.asks ELSE last.pre.bids

EligibleBefore ==
    {id \in Queued(OpposingBefore) :
        \/ last.args.order_type = "MARKET"
        \/ IF last.args.side = "BUY"
           THEN last.pre.orders[id].price <= last.args.price
           ELSE last.pre.orders[id].price >= last.args.price}

\* C25: maximal fill.  The trades of one submit_order fill the submitted
\* order for min(quantity, L), L the sum of remaining before the submit over
\* the opposing resting orders eligible for it: all of them for a MARKET
\* order, whatever its price, those at prices <= its price (BUY) or >= its
\* price (SELL) for a LIMIT or IOC order; the order ends FILLED iff
\* L >= quantity; and on an empty opposing side the submit returns no trade.
C25_MaximalFill ==
    Submitted =>
        LET id == last.order_id
            q == last.args.quantity
            L == RemainingIn(last.pre.orders, EligibleBefore)
        IN /\ FillsQuantity(last.fills) = Min(q, L)
           /\ orders[id].quantity - orders[id].remaining = Min(q, L)
           /\ orders[id].status = "FILLED" <=> L >= q
           /\ Queued(OpposingBefore) = {} => last.fills = <<>>

\* a LIMIT order that took all of the one eligible resting order, less than
\* its quantity, while another order rested on the opposing side beyond its price
C25_Witness ==
    /\ Submitted
    /\ last.args.order_type = "LIMIT"
    /\ EligibleBefore # {}
    /\ Queued(OpposingBefore) \ EligibleBefore # {}
    /\ FillsQuantity(last.fills) = RemainingIn(last.pre.orders, EligibleBefore)
    /\ FillsQuantity(last.fills) < last.args.quantity

\* a MARKET SELL with a price above that of the bid it took, and a MARKET
\* BUY with a price below that of the ask it took
C25_WitnessMarketSell ==
    /\ Submitted
    /\ last.args.order_type = "MARKET"
    /\ last.args.side = "SELL"
    /\ last.fills # <<>>
    /\ last.fills[1].trade.price < last.args.price
    /\ orders[last.order_id].status = "FILLED"

C25_WitnessMarketBuy ==
    /\ Submitted
    /\ last.args.order_type = "MARKET"
    /\ last.args.side = "BUY"
    /\ last.fills # <<>>
    /\ last.fills[1].trade.price > last.args.price
    /\ orders[last.order_id].status = "CANCELLED"

\* a MARKET order submitted against an empty opposing side
C25_WitnessEmpty ==
    /\ Submitted
    /\ last.args.order_type = "MARKET"
    /\ Queued(OpposingBefore) = {}
    /\ Queued(OwnSide(last.pre, [side |-> last.args.side])) # {}
    /\ last.fills = <<>>

\* --------------------------------------------------------------- C26
\* C26: the book is never crossed or locked between commands.  In every
\* state reached by submit_order and cancel_order calls, when best_bid()
\* and best_ask() are both present, best_bid() < best_ask(); and
\* get_spread(), when it is not none, is strictly positive.
C26_NeverCrossed ==
    /\ (best_bid(Now) # None /\ best_ask(Now) # None) =>
            best_bid(Now)[1] < best_ask(Now)[1]
    /\ get_spread(Now) # None => get_spread(Now)[1] > 0

\* a LIMIT order that traded at its price and rests there with what is
\* left, with an order resting on the other side
C26_Witness ==
    /\ Submitted
    /\ last.args.order_type = "LIMIT"
    /\ last.fills # <<>>
    /\ InQueue(last.order_id)
    /\ best_bid(Now) # None
    /\ best_ask(Now) # None
    /\ get_spread(Now) # None

\* a cancel that leaves a bid facing an ask
C26_WitnessCancel ==
    /\ Cancelled
    /\ best_bid(Now) # None
    /\ best_ask(Now) # None

\* --------------------------------------------------------------- C27
Terminal == {"FILLED", "CANCELLED"}

\* the status transitions of the claim, and no transition at all
Transitions ==
    {<<"OPEN", "PARTIALLY_FILLED">>,
     <<"OPEN", "FILLED">>, <<"PARTIALLY_FILLED", "FILLED">>,
     <<"OPEN", "CANCELLED">>, <<"PARTIALLY_FILLED", "CANCELLED">>}
    \cup {<<s, s>> : s \in OrderStatuses}

\* the registry of an accepted submit once its order is created: OPEN, with
\* remaining = quantity
Created ==
    Append(last.pre.orders,
           Order(last.order_id, last.args.side, last.args.price, last.args.quantity,
                 last.args.order_type, last.args.timestamp))

\* the registries the last command went through: the one before it, for a
\* submit the one with its order created, the one each of its trades found,
\* the one it left
Registries ==
    <<last.pre.orders>> \o (IF Submitted THEN <<Created>> ELSE <<>>)
        \o [i \in 1..Len(last.fills) |-> last.fills[i].orders]
        \o <<orders>>

\* C27: terminal states are absorbing.  An order that is FILLED or CANCELLED
\* before a submit_order or cancel_order is the same after it, in status, in
\* remaining and in every other field; it is in no trade of the command and
\* in no queue.  From one registry of a command to the next, an order's
\* status is unchanged or goes OPEN -> PARTIALLY_FILLED,
\* OPEN/PARTIALLY_FILLED -> FILLED or OPEN/PARTIALLY_FILLED -> CANCELLED,
\* and its remaining does not increase; an order starts OPEN with
\* remaining = quantity, which is how its first trade finds it.
C27_TerminalAbsorbing ==
    /\ \A id \in DOMAIN last.pre.orders :
        last.pre.orders[id].status \in Terminal =>
            /\ orders[id] = last.pre.orders[id]
            /\ \A i \in DOMAIN last.fills :
                /\ id \notin {last.fills[i].aggressor, last.fills[i].resting}
                /\ id \notin {last.fills[i].trade.buy_order_id,
                              last.fills[i].trade.sell_order_id}
            /\ ~InQueue(id)
    /\ \A id \in DOMAIN orders : orders[id].status \in Terminal => ~InQueue(id)
    /\ \A k \in 1..(Len(Registries) - 1) :
        \A id \in DOMAIN Registries[k] :
            /\ <<Registries[k][id].status, Registries[k + 1][id].status>> \in Transitions
            /\ Registries[k + 1][id].remaining <= Registries[k][id].remaining
    /\ Submitted =>
        /\ last.order_id \notin DOMAIN last.pre.orders
        /\ Created[last.order_id].status = "OPEN"
        /\ Created[last.order_id].remaining = Created[last.order_id].quantity
        /\ last.fills # <<>> => last.fills[1].orders = Created
        /\ last.fills = <<>> =>
            /\ orders[last.order_id].status \in {"OPEN", "CANCELLED"}
            /\ orders[last.order_id].remaining = last.args.quantity

\* a submit that trades with a resting order while a FILLED order and its
\* counterpart in the registry stay as they were
C27_Witness ==
    /\ Submitted
    /\ last.fills # <<>>
    /\ \E id \in DOMAIN last.pre.orders :
        /\ last.pre.orders[id].status = "FILLED"
        /\ orders[id] = last.pre.orders[id]

\* a cancel asked of a FILLED order and of a CANCELLED order, both refused
C27_WitnessCancelFilled ==
    /\ last.op = "cancel"
    /\ last.result # Ok
    /\ last.order_id \in DOMAIN orders
    /\ orders[last.order_id].status = "FILLED"

C27_WitnessCancelCancelled ==
    /\ last.op = "cancel"
    /\ last.result # Ok
    /\ last.order_id \in DOMAIN orders
    /\ orders[last.order_id].status = "CANCELLED"

\* a submit at the price a CANCELLED order rested at, on the opposing side
C27_WitnessCancelledSkipped ==
    /\ Submitted
    /\ \E id \in DOMAIN last.pre.orders :
        /\ last.pre.orders[id].status = "CANCELLED"
        /\ last.pre.orders[id].order_type = "LIMIT"
        /\ last.pre.orders[id].side # last.args.side
        /\ last.pre.orders[id].price = last.args.price

====
